---- MODULE Spec2Model ----
(***************************************************************************)
(* PLTNUM scripts: scripts/apply_foldseek_to_pdb.py (parallel extraction   *)
(* of structure sequences through a multiprocessing pool) and              *)
(* scripts/predict.py (batched inference).  The two scripts are separate   *)
(* programs: Spec is a run of the extraction script, PredictSpec a run of  *)
(* the prediction script.                                                  *)
(***************************************************************************)
EXTENDS Integers, Sequences, FiniteSets, TLC

\* ------------------------------------------------------------------ bounds
MaxFiles == 5       \* most structure files glob discovers
MaxProcs == 2       \* largest --num_processes
RandMax  == 2       \* random.randint(0, 10000000), scaled down to 0..RandMax
MaxLength == 3      \* largest --max_length
MaxBatch == 2       \* largest --batch_size
MaxRows  == 3       \* most rows of the input table

VARIABLES
  \* ---- apply_foldseek_to_pdb.py
  pdb_files,      \* list of discovered paths, in discovery order (line 60)
  num_processes,  \* config.num_processes (line 65)
  taskq,          \* the pool's task queue: chunk numbers not yet taken, FIFO
  worker,         \* per pool process: what it is doing
  mapValue,       \* MapResult._value: one slot per input item
  mapSuccess,     \* MapResult._success
  mapLeft,        \* MapResult._number_left: chunks not yet reported
  pc,             \* position of the main process
  errorAt,        \* where the exception that ended the run was raised
  output,         \* output of pool.map (line 66)
  columns,        \* aa, foldseek, aa_foldseek (line 68)
  table,          \* the DataFrame (line 76)
  csvWritten,     \* the file written by to_csv (line 78), or None
  outOfOrder,     \* history: some item finished before an earlier item
  finished,       \* history: input positions whose extraction returned
  failures,       \* history: input positions whose extraction raised
  \* ---- predict.py
  cfg,            \* the argparse namespace `config` (fields the run reads)
  configured,     \* history: --max_length as parsed, before line 168
  mps_available,  \* torch.backends.mps.is_available()
  cuda_available, \* torch.cuda.is_available()
  device,         \* config.device (line 159)
  df,             \* the input table (line 172), one entry per row
  fetched,        \* rows the data loader has fetched from the dataset
  nbatch,         \* batches predict_fn has run
  predictions,    \* predict_fn's list: one one-element list per sample
  ampLog,         \* per batch: the arguments given to torch.amp.autocast
  raw_col,        \* folds["raw prediction values"]
  binary_col,     \* folds["binary prediction values"], or None
  resultWritten,  \* the table written to result.csv (line 180), or None
  ppc             \* position of the prediction script

evars == <<pdb_files, num_processes, taskq, worker, mapValue, mapSuccess,
           mapLeft, pc, errorAt, output, columns, table, csvWritten,
           outOfOrder, finished, failures>>

pvars == <<cfg, configured, mps_available, cuda_available, device, df, fetched,
           nbatch, predictions, ampLog, raw_col, binary_col, resultWritten, ppc>>

vars == <<evars, pvars>>

\* Python's None, and a value that is present
None == <<>>
Some(x) == <<x>>
NoError == "none"

Min(a, b) == IF a < b THEN a ELSE b

\* ------------------------------------------------- StructureTokenExtractor
\* get_struc_seq(...)[chain]: the (aa, foldseek, aa_foldseek) triple of one file
Triple(path) == << <<"aa", path>>, <<"3di", path>>, <<"aa3di", path>> >>

\* what one call of get_foldseek_seq can do: return the chain's triple, raise
\* KeyError at [chain] (line 53), or raise inside get_struc_seq
Outcomes == {"ok", "nochain", "toolfail"}

\* random.randint(0, 10000000) (line 52): both ends included
TokenSpace == 0..RandMax

\* ------------------------------------------------------------ pool.map
\* Pool._map_async: chunksize, extra = divmod(len(iterable), len(pool) * 4)
ChunkSize(n, p) ==
  IF n = 0 THEN 0
  ELSE (n \div (p * 4)) + (IF n % (p * 4) # 0 THEN 1 ELSE 0)

NumChunks(n, p) ==
  IF n = 0 THEN 0 ELSE (n + ChunkSize(n, p) - 1) \div ChunkSize(n, p)

N == Len(pdb_files)
CS == ChunkSize(N, num_processes)

\* input positions of chunk k (1-based), in order
ChunkFirst(k) == (k - 1) * CS + 1
ChunkLast(k)  == Min(k * CS, N)

Workers == 1..num_processes

IdleWorker == [st |-> "idle", chunk |-> 0, pos |-> 0, token |-> -1, acc |-> <<>>]

\* discovery orders of n distinct paths: ascending or descending labels
Discovered(n, rev) == [i \in 1..n |-> IF rev THEN n + 1 - i ELSE i]

\* the prediction script is not part of an extraction run
PredictOff ==
  /\ cfg = <<>> /\ configured = 0
  /\ mps_available = FALSE /\ cuda_available = FALSE
  /\ device = "none" /\ df = <<>> /\ fetched = 0 /\ nbatch = 0
  /\ predictions = <<>> /\ ampLog = <<>> /\ raw_col = <<>>
  /\ binary_col = None /\ resultWritten = None /\ ppc = "off"

Init ==
  /\ PredictOff
  /\ \E n \in 0..MaxFiles, rev \in BOOLEAN : pdb_files = Discovered(n, rev)
  /\ num_processes \in 1..MaxProcs
  /\ taskq = [k \in 1..NumChunks(Len(pdb_files), num_processes) |-> k]
  /\ worker = [w \in 1..num_processes |-> IdleWorker]
  /\ mapValue = [i \in 1..Len(pdb_files) |-> None]
  /\ mapSuccess = TRUE
  /\ mapLeft = NumChunks(Len(pdb_files), num_processes)
  /\ pc = "map"
  /\ errorAt = NoError
  /\ output = <<>>
  /\ columns = <<>>
  /\ table = <<>>
  /\ csvWritten = None
  /\ outOfOrder = FALSE
  /\ finished = {}
  /\ failures = {}

\* a pool process takes the next chunk of the task queue
TakeTask(w) ==
  /\ pc = "map"
  /\ worker[w].st = "idle"
  /\ taskq # <<>>
  /\ worker' = [worker EXCEPT ![w] =
        [st |-> "ready", chunk |-> Head(taskq), pos |-> ChunkFirst(Head(taskq)),
         token |-> -1, acc |-> <<>>]]
  /\ taskq' = Tail(taskq)
  /\ UNCHANGED <<pdb_files, num_processes, mapValue, mapSuccess, mapLeft, pc,
                 errorAt, output, columns, table, csvWritten, outOfOrder,
                 finished, failures, pvars>>

\* process_id=random.randint(0, 10000000): the value drawn for this invocation
DrawToken_PastRange(w, t) == t + 1
DrawToken(w, t) == t

\* get_foldseek_seq draws the process_id and starts the external tool
Invoke(w) ==
  /\ pc = "map"
  /\ worker[w].st = "ready"
  /\ \E t \in TokenSpace :
       worker' = [worker EXCEPT ![w].st = "inflight", ![w].token = DrawToken(w, t)]
  /\ UNCHANGED <<pdb_files, num_processes, taskq, mapValue, mapSuccess, mapLeft,
                 pc, errorAt, output, columns, table, csvWritten, outOfOrder,
                 finished, failures, pvars>>

\* results stored in the order the chunks report, not by chunk number
SetSlots_CompletionOrder(value, k, acc) ==
  LET empty == {i \in 1..Len(value) : value[i] = None}
      rank(i) == Cardinality({j \in empty : j <= i})
  IN [i \in 1..Len(value) |->
        IF i \in empty /\ rank(i) <= Len(acc) THEN Some(acc[rank(i)])
        ELSE value[i]]

\* MapResult._set(i, (success, result)): chunk k's results go to chunk k's slice
SetSlots(value, k, acc) ==
  [i \in 1..Len(value) |->
     IF i >= ChunkFirst(k) /\ i <= ChunkLast(k)
     THEN Some(acc[i - ChunkFirst(k) + 1])
     ELSE value[i]]

MapSet(k, success, acc) ==
  /\ mapLeft' = mapLeft - 1
  /\ IF success /\ mapSuccess
     THEN /\ mapValue' = SetSlots(mapValue, k, acc)
          /\ UNCHANGED mapSuccess
     ELSE /\ mapSuccess' = FALSE
          /\ UNCHANGED mapValue

\* what get_foldseek_seq hands back for an outcome of the tool (lines 48-54)
EmptyTriple == << <<>>, <<>>, <<>> >>
ParsedSeqs(o, path) == IF o = "ok" THEN Triple(path) ELSE EmptyTriple

\* get_foldseek_seq catches nothing: a failed invocation and a missing chain
\* (KeyError at [chain], line 53) both leave the function as an exception
Raises_Swallowed(o) == FALSE
Raises(o) == o # "ok"

\* the external tool returns (or fails) for the item the worker is on; mapstar
\* runs the chunk's items in order and reports the chunk when it ends or raises
Return(w) ==
  /\ pc = "map"
  /\ worker[w].st = "inflight"
  /\ LET k == worker[w].chunk
         i == worker[w].pos
     IN \E o \in Outcomes :
          /\ finished' = finished \cup {i}
          /\ outOfOrder' = (outOfOrder \/ \E j \in 1..(i - 1) : j \notin finished)
          /\ failures' = IF o = "ok" THEN failures ELSE failures \cup {i}
          /\ IF ~Raises(o)
             THEN LET acc == Append(worker[w].acc, ParsedSeqs(o, pdb_files[i]))
                  IN IF i = ChunkLast(k)
                     THEN /\ MapSet(k, TRUE, acc)
                          /\ worker' = [worker EXCEPT ![w] = IdleWorker]
                     ELSE /\ worker' = [worker EXCEPT ![w].st = "ready",
                                          ![w].pos = i + 1, ![w].token = -1,
                                          ![w].acc = acc]
                          /\ UNCHANGED <<mapValue, mapSuccess, mapLeft>>
             ELSE /\ MapSet(k, FALSE, <<>>)
                  /\ worker' = [worker EXCEPT ![w] = IdleWorker]
  /\ UNCHANGED <<pdb_files, num_processes, taskq, pc, errorAt, output, columns,
                 table, csvWritten, pvars>>

\* pool.map returns once every chunk has reported: the list, or the exception
PoolMapReturn ==
  /\ pc = "map"
  /\ mapLeft = 0
  /\ IF mapSuccess
     THEN /\ output' = [i \in 1..Len(mapValue) |-> mapValue[i][1]]
          /\ pc' = "unpack"
          /\ UNCHANGED errorAt
     ELSE /\ pc' = "failed"
          /\ errorAt' = "map"
          /\ UNCHANGED output
  /\ UNCHANGED <<pdb_files, num_processes, taskq, worker, mapValue, mapSuccess,
                 mapLeft, columns, table, csvWritten, outOfOrder, finished,
                 failures, pvars>>

\* zip(*output): as many tuples as the shortest argument is long; none if no argument
ZipStar(out) ==
  IF Len(out) = 0 THEN <<>>
  ELSE [c \in 1..3 |-> [i \in 1..Len(out) |-> out[i][c]]]

CanUnpack_Any(z) == TRUE
\* aa, foldseek, aa_foldseek = zip(*output): exactly three values are needed
CanUnpack(z) == Len(z) = 3

Unpack ==
  /\ pc = "unpack"
  /\ IF CanUnpack(ZipStar(output))
     THEN /\ columns' = ZipStar(output)
          /\ pc' = "assemble"
          /\ UNCHANGED errorAt
     ELSE /\ pc' = "failed"
          /\ errorAt' = "unpack"
          /\ UNCHANGED columns
  /\ UNCHANGED <<pdb_files, num_processes, taskq, worker, mapValue, mapSuccess,
                 mapLeft, output, table, csvWritten, outOfOrder, finished,
                 failures, pvars>>

\* result = {...}; df = pd.DataFrame(result)
ColumnAt(cols, c, i) == IF Len(cols) >= c THEN cols[c][i] ELSE <<>>

AssembleTable ==
  /\ pc = "assemble"
  /\ table' = [i \in 1..Len(pdb_files) |->
                 [file |-> pdb_files[i], aa |-> ColumnAt(columns, 1, i),
                  foldseek |-> ColumnAt(columns, 2, i),
                  aa_foldseek |-> ColumnAt(columns, 3, i)]]
  /\ pc' = "write"
  /\ UNCHANGED <<pdb_files, num_processes, taskq, worker, mapValue, mapSuccess,
                 mapLeft, errorAt, output, columns, csvWritten, outOfOrder,
                 finished, failures, pvars>>

\* df.to_csv(...)
WriteCsv ==
  /\ pc = "write"
  /\ csvWritten' = Some(table)
  /\ pc' = "done"
  /\ UNCHANGED <<pdb_files, num_processes, taskq, worker, mapValue, mapSuccess,
                 mapLeft, errorAt, output, columns, table, outOfOrder, finished,
                 failures, pvars>>

Next ==
  \/ \E w \in Workers : TakeTask(w)
  \/ \E w \in Workers : Invoke(w)
  \/ \E w \in Workers : Return(w)
  \/ PoolMapReturn
  \/ Unpack
  \/ AssembleTable
  \/ WriteCsv

Spec == Init /\ [][Next]_vars
\* ----------------------------------------------------------- predict.py
\* the extraction script is not part of a prediction run
ExtractOff ==
  /\ pdb_files = <<>> /\ num_processes = 1 /\ taskq = <<>>
  /\ worker = [w \in 1..1 |-> IdleWorker]
  /\ mapValue = <<>> /\ mapSuccess = TRUE /\ mapLeft = 0
  /\ pc = "off" /\ errorAt = NoError /\ output = <<>> /\ columns = <<>>
  /\ table = <<>> /\ csvWritten = None /\ outOfOrder = FALSE
  /\ finished = {} /\ failures = {}

Policies == {"left", "right", "both", "internal"}
Tasks == {"classification", "regression"}

\* the rows a table can hold: a row is the sequence it carries, named by a number
RowKinds == 1..3

\* PLTNUM.forward on one row: the logit of that row's sequence (-1, 0 or 1)
Forward(row) == row - 2

\* torch.sigmoid, in thousandths
Sigmoid(z) == CASE z = -1 -> 269 [] z = 0 -> 500 [] z = 1 -> 731

\* the score predict_fn collects for a logit, in thousandths (lines 117-121)
Score(task, z) == IF task = "classification" THEN Sigmoid(z) ELSE z * 1000

\* 0.5, in thousandths (line 147)
Threshold == 500

Decision_AtLeast(x) == IF x >= Threshold THEN 1 ELSE 0
\* 1 if x > 0.5 else 0 (line 147)
Decision(x) == IF x > Threshold THEN 1 ELSE 0

PickDevice_CudaFirst(mps, cuda) ==
  IF cuda THEN "cuda" ELSE IF mps THEN "mps" ELSE "cpu"
\* "mps" if mps available else "cuda" if cuda available else "cpu" (line 159)
PickDevice(mps, cuda) ==
  IF mps THEN "mps" ELSE IF cuda THEN "cuda" ELSE "cpu"

AdjustedMaxLength_Minus(len, policy) == IF policy = "both" THEN len - 1 ELSE len
\* if config.used_sequence == "both": config.max_length += 1 (lines 167-168)
AdjustedMaxLength(len, policy) == IF policy = "both" THEN len + 1 ELSE len

\* the two positions of <cls> and <eos> (help text of --max_length, line 70)
SentinelTokens == 2

\* "the actual length of input sequence is max_length - 2" (line 70)
TokenBudget(c) == c.max_length - SentinelTokens

NumBatches_DropLast(n, b) == n \div b
\* DataLoader(batch_size=b, shuffle=False, drop_last=False): number of batches
NumBatches(n, b) == (n + b - 1) \div b

\* rows of batch k (1-based): the k-th run of b consecutive rows, in order
BatchFirst(k, b) == (k - 1) * b + 1
BatchLast(k, b, n) == Min(k * b, n)

\* device_type handed to torch.amp.autocast (line 114)
AutocastDevice(dev) ==
  IF dev = "mps" THEN "mps" ELSE IF dev = "cuda" THEN "cuda" ELSE "cpu"

AutocastEnabled_AcceleratorOnly(use_amp, dev) == use_amp /\ dev # "cpu"
\* enabled=cfg.use_amp (line 116): the flag alone, whatever the device
AutocastEnabled(use_amp, dev) == use_amp

\* torch.amp.autocast(device_type, enabled): autocast runs the batch in reduced
\* precision on every device type, cpu included (bfloat16), when enabled
ReducedPrecision(device_type, enabled) == enabled

\* itertools.chain.from_iterable over the per-sample one-element lists
RECURSIVE Flatten(_)
Flatten(ls) == IF ls = <<>> THEN <<>> ELSE Head(ls) \o Flatten(Tail(ls))

PredictInit ==
  /\ ExtractOff
  /\ cfg \in [max_length : 1..MaxLength, used_sequence : Policies, task : Tasks,
              use_amp : BOOLEAN, batch_size : 1..MaxBatch]
  /\ configured = cfg.max_length
  /\ mps_available \in BOOLEAN
  /\ cuda_available \in BOOLEAN
  /\ device = "none" /\ df = <<>> /\ fetched = 0 /\ nbatch = 0
  /\ predictions = <<>> /\ ampLog = <<>> /\ raw_col = <<>>
  /\ binary_col = None /\ resultWritten = None
  /\ ppc = "select_device"

\* config.device = ... (line 159)
SelectDevice ==
  /\ ppc = "select_device"
  /\ device' = PickDevice(mps_available, cuda_available)
  /\ ppc' = "adjust"
  /\ UNCHANGED <<cfg, configured, mps_available, cuda_available, df, fetched,
                 nbatch, predictions, ampLog, raw_col, binary_col,
                 resultWritten, evars>>

\* lines 162-170: the only change to the length configuration
AdjustMaxLength ==
  /\ ppc = "adjust"
  /\ cfg' = [cfg EXCEPT !.max_length = AdjustedMaxLength(@, cfg.used_sequence)]
  /\ ppc' = "read_csv"
  /\ UNCHANGED <<configured, mps_available, cuda_available, device, df, fetched,
                 nbatch, predictions, ampLog, raw_col, binary_col,
                 resultWritten, evars>>

\* df = pd.read_csv(config.data_path), tokenizer load, and predict() up to the
\* call of predict_fn: dataset, loader and model are built (lines 172-177,
\* 128-140)
ReadCsv ==
  /\ ppc = "read_csv"
  /\ \E n \in 0..MaxRows : df' \in [1..n -> RowKinds]
  /\ ppc' = "batches"
  /\ UNCHANGED <<cfg, configured, mps_available, cuda_available, device, fetched,
                 nbatch, predictions, ampLog, raw_col, binary_col,
                 resultWritten, evars>>

\* one turn of predict_fn's loop (lines 110-122): the loader fetches the next
\* batch from the dataset, the model scores it under autocast, and the scores
\* are appended
PredictBatch ==
  /\ ppc = "batches"
  /\ nbatch < NumBatches(Len(df), cfg.batch_size)
  /\ LET k == nbatch + 1
         first == BatchFirst(k, cfg.batch_size)
         last == BatchLast(k, cfg.batch_size, Len(df))
         preds == [j \in 1..(last - first + 1) |->
                     << Score(cfg.task, Forward(df[first + j - 1])) >>]
     IN /\ predictions' = predictions \o preds
        /\ fetched' = fetched + (last - first + 1)
        /\ ampLog' = Append(ampLog,
              [device_type |-> AutocastDevice(device),
               enabled |-> AutocastEnabled(cfg.use_amp, device),
               reduced |-> ReducedPrecision(AutocastDevice(device),
                                            AutocastEnabled(cfg.use_amp, device))])
  /\ nbatch' = nbatch + 1
  /\ UNCHANGED <<cfg, configured, mps_available, cuda_available, device, df,
                 raw_col, binary_col, resultWritten, ppc, evars>>

\* predict_fn returns; predict flattens and adds the columns (lines 143-153)
Collect ==
  /\ ppc = "batches"
  /\ nbatch = NumBatches(Len(df), cfg.batch_size)
  /\ LET flat == Flatten(predictions)
     IN /\ raw_col' = flat
        /\ binary_col' = IF cfg.task = "classification"
                         THEN Some([i \in 1..Len(flat) |-> Decision(flat[i])])
                         ELSE None
  /\ ppc' = "write"
  /\ UNCHANGED <<cfg, configured, mps_available, cuda_available, device, df,
                 fetched, nbatch, predictions, ampLog, resultWritten, evars>>

\* result.to_csv(...) (line 180)
WriteResult ==
  /\ ppc = "write"
  /\ resultWritten' = Some([rows |-> df, raw |-> raw_col, binary |-> binary_col])
  /\ ppc' = "done"
  /\ UNCHANGED <<cfg, configured, mps_available, cuda_available, device, df,
                 fetched, nbatch, predictions, ampLog, raw_col, binary_col,
                 evars>>

PredictNext ==
  \/ SelectDevice
  \/ AdjustMaxLength
  \/ ReadCsv
  \/ PredictBatch
  \/ Collect
  \/ WriteResult

PredictSpec == PredictInit /\ [][PredictNext]_vars

\* ------------------------------------------------- claims: extraction run
\* the table the run should write: row i pairs path i with that path's triple
ExpectedTable ==
  [i \in 1..Len(pdb_files) |->
     [file |-> pdb_files[i], aa |-> <<"aa", pdb_files[i]>>,
      foldseek |-> <<"3di", pdb_files[i]>>,
      aa_foldseek |-> <<"aa3di", pdb_files[i]>>]]

AfterMap == pc \in {"unpack", "assemble", "write", "done"}

\* C1: whatever the pool size and the order in which the workers finish, the
\* list pool.map returns has one result per input file, result i being the
\* triple of file i, and the table written pairs each path with its own triple
\* in input order.
C1_InputOrder ==
  /\ AfterMap =>
       /\ Len(output) = Len(pdb_files)
       /\ \A i \in 1..Len(pdb_files) :
            output[i] = << <<"aa", pdb_files[i]>>, <<"3di", pdb_files[i]>>,
                           <<"aa3di", pdb_files[i]>> >>
  /\ pc = "done" => csvWritten = Some(ExpectedTable)

\* a finished run with fewer workers than files in which an item finished
\* before an earlier one
C1_Witness ==
  /\ pc = "done"
  /\ num_processes < Len(pdb_files)
  /\ outOfOrder
  /\ csvWritten # None

InFlight == {w \in Workers : worker[w].st = "inflight"}

\* C2 (as claimed): no two extractions in flight at the same time hold the
\* same isolation token.
C2_NoCollision ==
  \A w1 \in InFlight, w2 \in InFlight : w1 # w2 => worker[w1].token # worker[w2].token

\* C2 (amended): every extraction in flight holds a token drawn for that
\* invocation from the space of random.randint, and a process holds a token
\* only while its invocation is in flight; nothing keeps two of them apart.
C2_TokenDrawnPerInvocation ==
  \A w \in Workers :
    IF worker[w].st = "inflight"
    THEN worker[w].token \in 0..RandMax
    ELSE worker[w].token = -1

\* two extractions in flight at once, each with its token, in a pool that has
\* already drawn a token for an earlier item
C2_Witness ==
  /\ Cardinality(InFlight) >= 2
  /\ \A w \in InFlight : worker[w].token \in 0..RandMax
  /\ finished # {}

\* C3: if the extraction of any file fails, pool.map raises in the main
\* process and nothing is written: the run never gets past the map, and a
\* table is written only when every file was extracted.
C3_AllOrNothing ==
  /\ failures # {} => (csvWritten = None /\ pc \in {"map", "failed"})
  /\ (failures # {} /\ pc = "failed") => errorAt = "map"
  /\ csvWritten # None => (failures = {} /\ finished = 1..Len(pdb_files))

\* the run has stopped on one file's failure although other files succeeded
C3_Witness ==
  /\ pc = "failed"
  /\ failures # {}
  /\ finished \ failures # {}
  /\ csvWritten = None

\* C10: with no structure file discovered the run stops at the unpacking of
\* the (empty) result list and writes no table, not even an empty one.
C10_EmptyInputFails ==
  Len(pdb_files) = 0 =>
    /\ csvWritten = None
    /\ pc \in {"map", "unpack", "failed"}
    /\ pc = "failed" => errorAt = "unpack"

\* the run over zero files, stopped at line 68
C10_Witness ==
  /\ Len(pdb_files) = 0
  /\ pc = "failed"
  /\ errorAt = "unpack"
  /\ output = <<>>
\* ------------------------------------------------ claims: prediction run
Scored == ppc \in {"write", "done"}
Selected == ppc # "select_device"
Adjusted == ppc \notin {"select_device", "adjust"}
BothSlot == IF cfg.used_sequence = "both" THEN 1 ELSE 0

\* C4: whatever the batch size, predict collects one scalar score per dataset
\* row, score i being the model's output for row i: after k batches the list
\* holds the scores of the first min(k*b, n) rows in dataset order, and the
\* flattened list has exactly n entries.
C4_ScoresInRowOrder ==
  /\ ppc = "batches" =>
       /\ Len(predictions) = Min(nbatch * cfg.batch_size, Len(df))
       /\ fetched = Len(predictions)
       /\ \A i \in 1..Len(predictions) :
            predictions[i] = << Score(cfg.task, Forward(df[i])) >>
  /\ Scored =>
       /\ Len(raw_col) = Len(df)
       /\ \A i \in 1..Len(df) : raw_col[i] = Score(cfg.task, Forward(df[i]))

\* a finished run over 3 different rows in batches of 2: the last batch is short
C4_Witness ==
  /\ ppc = "done"
  /\ Len(df) = 3 /\ cfg.batch_size = 2 /\ nbatch = 2
  /\ df[1] # df[2] /\ df[2] # df[3]
  /\ Len(raw_col) = 3

\* C5: for classification every row gets a raw score and a binary decision,
\* the decision being 1 exactly when the raw score is strictly above 0.5; for
\* regression only the raw score column is added.
C5_DecisionRule ==
  Scored =>
    IF cfg.task = "classification"
    THEN /\ binary_col # None
         /\ Len(binary_col[1]) = Len(df)
         /\ Len(raw_col) = Len(df)
         /\ \A i \in 1..Len(df) :
              /\ binary_col[1][i] \in {0, 1}
              /\ binary_col[1][i] = 1 <=> 2 * raw_col[i] > 1000
    ELSE /\ binary_col = None
         /\ Len(raw_col) = Len(df)

\* a classification run with a score of exactly 0.5 decided 0 and a higher one decided 1
C5_Witness ==
  /\ ppc = "done"
  /\ cfg.task = "classification"
  /\ binary_col # None
  /\ \E i \in 1..Len(df) : raw_col[i] = 500 /\ binary_col[1][i] = 0
  /\ \E i \in 1..Len(df) : raw_col[i] > 500 /\ binary_col[1][i] = 1

\* C6 (as claimed): cuda if available, else mps if available, else cpu.
C6_CudaBeforeMps ==
  Selected =>
    device = IF cuda_available THEN "cuda"
             ELSE IF mps_available THEN "mps" ELSE "cpu"

\* C6 (amended): the device is mps if mps is available, else cuda if cuda is
\* available, else cpu; a device is selected whatever is available.
C6_MpsBeforeCuda ==
  Selected =>
    /\ device \in {"mps", "cuda", "cpu"}
    /\ device = IF mps_available THEN "mps"
                ELSE IF cuda_available THEN "cuda" ELSE "cpu"

\* both accelerators available: the run went on with mps
C6_Witness ==
  /\ Selected
  /\ mps_available /\ cuda_available
  /\ device = "mps"

\* C7: a run whose max length leaves a non-positive token budget (max length
\* minus 2, minus 1 for policy both) stops before any row is fetched from the
\* dataset or scored, and writes no result table.
C7_FailFast ==
  configured - SentinelTokens - BothSlot <= 0 =>
    /\ fetched = 0
    /\ predictions = <<>>
    /\ resultWritten = None
    /\ ppc # "done"

\* C8 (as claimed): the budget is the configured max length minus 2, minus 1
\* more for policy both; the other policies pass the max length on unchanged,
\* and the budget of both is never the larger one.
C8_BothReservesSlot ==
  Adjusted =>
    /\ TokenBudget(cfg) = configured - 2 - BothSlot
    /\ cfg.used_sequence # "both" => cfg.max_length = configured
    /\ cfg.used_sequence = "both" => TokenBudget(cfg) <= configured - 2

\* C8 (amended): the max length handed on is the configured one for left,
\* right and internal and the configured one plus 1 for both; less the 2
\* sentinel positions the budget is configured - 2, and configured - 1 for
\* both, which is never the smaller one.
C8_BothAddsSlot ==
  Adjusted =>
    /\ cfg.max_length = configured + BothSlot
    /\ TokenBudget(cfg) = configured - 2 + BothSlot
    /\ cfg.used_sequence # "both" => cfg.max_length = configured
    /\ cfg.used_sequence = "both" => TokenBudget(cfg) >= configured - 2

\* a run with policy both that has handed the raised max length to the loader
C8_Witness ==
  /\ ppc = "batches" /\ fetched > 0
  /\ cfg.used_sequence = "both"
  /\ cfg.max_length = configured + 1

\* C9 (as claimed): a batch runs in reduced precision only when the precision
\* flag is set and the device is cuda or mps; on cpu every batch runs at full
\* precision.
C9_CpuFullPrecision ==
  \A k \in 1..Len(ampLog) :
    /\ ampLog[k].reduced => (cfg.use_amp /\ device \in {"cuda", "mps"})
    /\ device = "cpu" => ~ampLog[k].reduced

\* C9 (amended): every batch enters autocast with the selected device's type
\* and runs in reduced precision exactly when the precision flag is set, on
\* cpu as on cuda and mps; the run raises no error for it and goes on to its
\* end.
C9_FlagAloneDecides ==
  /\ Len(ampLog) = nbatch
  /\ \A k \in 1..Len(ampLog) :
       /\ ampLog[k].device_type = device
       /\ ampLog[k].enabled = cfg.use_amp
       /\ ampLog[k].reduced = cfg.use_amp

\* a finished run on cpu with the flag set whose batches ran under autocast
C9_Witness ==
  /\ ppc = "done"
  /\ device = "cpu" /\ cfg.use_amp
  /\ Len(ampLog) >= 2
  /\ \A k \in 1..Len(ampLog) : ampLog[k].reduced
====
